---- MODULE Spec2Model ----
(***************************************************************************)
(* Model of the single-flight task coordinator (core/queue_manager.py),    *)
(* the event broadcaster (core/websocket_manager.py) and the generic       *)
(* application automator (services/automation/application_automator.py).   *)
(*                                                                         *)
(* Coroutines are modelled at the granularity of asyncio: one action is    *)
(* the code a coroutine runs between two suspension points.  A call of     *)
(* send_json hands the message to the connection (or fails) and is then a  *)
(* suspension point; put on the unbounded queue never suspends.            *)
(***************************************************************************)
EXTENDS Integers, Sequences, FiniteSets, TLC

MaxTasks == 2     \* number of add_task calls explored
MaxObs == 2       \* number of WebSocket objects explored
BcastTasks == 1   \* add_task calls explored while deliveries are recorded
BcastObs == 2     \* WebSocket objects explored while deliveries are recorded
MaxFaults == 1    \* bookkeeping faults injected in SpecFault
MaxStarts == 3    \* calls of start_worker explored

NONE == "None"     \* None in a string-valued field
NoTime == 0        \* None in started_at / finished_at (the clock starts at 1)
NoTask == 0        \* None in current_task
NotJoined == -1    \* the connection was never accepted
Max(a, b) == IF a >= b THEN a ELSE b
TaskIds == 1..Max(MaxTasks, BcastTasks)
Obs == 1..Max(MaxObs, BcastObs)
WORKER == 0       \* coroutine id of _worker_loop; add_task(t) runs as coroutine t
Coros == {WORKER} \cup TaskIds

\* what calling task.func can do: return a result, or raise an exception
\* whose str() is val
Outcomes == { [kind |-> "return", val |-> "ok"],
              [kind |-> "raise", val |-> "boom"] }
NotRun == [kind |-> "pending", val |-> NONE]

Terminal == {"completed", "failed"}

VARIABLES
    history,             \* SequentialQueueManager.history: id -> AITask
    queue,               \* SequentialQueueManager.queue (FIFO of task ids)
    current_task,        \* SequentialQueueManager.current_task
    worker,              \* position of _worker_loop ("none": not started)
    clock,               \* number of datetime.now() calls so far
    add_task_pc,         \* position of each add_task call
    active_connections,  \* WebSocketManager.active_connections
    alive,               \* alive[o]: the client side of o is still open
    endpoint,            \* position of websocket_assistant for o
    joined,              \* number of tasks submitted when o connected
    pubs,                \* broadcast frames suspended in send_json
    log,                 \* log[o][t]: deliveries about task t attempted to o, in order
    published,           \* broadcast calls made so far
    observe,             \* whether the clients record what they are sent
    faults,              \* bookkeeping faults injected so far
    start_calls,         \* calls of start_worker so far
    worker_loops         \* _worker_loop tasks created so far

VARIABLES
    apc,                 \* position of run_application / apply
    job_status,          \* the status of the job in the job store
    job_resume,          \* job.resume_path is set and exists on disk
    profile,             \* what db.get_profile(1) returned
    session,             \* how the browser context was acquired
    context,             \* the browser context: none, open or closed
    run_result,          \* what run_application gave its caller
    apply_result,        \* what apply returned ("raised": it raised)
    page_url,            \* self.page.url
    load_markers,        \* login-wall markers in the page right after goto
    step_markers,        \* login markers in the page at the last FormStep check
    button_found,
    actions_performed,
    step,                \* the FormStep iteration, range(5)
    sel,                 \* position in apply_selectors / next_selectors
    step_advanced,
    apply_clicks,        \* clicks made on apply controls
    uploads,             \* set_input_files calls made
    fills,               \* element.fill calls made
    advance_clicks,      \* clicks made on advance controls
    launch,              \* how the launch of the browser ended
    step_clicks          \* clicks made on advance controls in this iteration

avars == << apc, job_status, job_resume, profile, session, context,
            run_result, apply_result, page_url, load_markers, step_markers,
            button_found, actions_performed, step, sel, step_advanced,
            apply_clicks, uploads, fills, advance_clicks, launch,
            step_clicks >>

qvars == << history, queue, current_task, worker, clock, add_task_pc,
            active_connections, alive, endpoint, joined, pubs, log,
            published, observe, faults, start_calls, worker_loops >>

svars == << start_calls, worker_loops >>

VARIABLES
    fill_pc,             \* position of the field-filling loop of one iteration
    values,              \* fields: the profile's value for each field
    inputs,              \* the inputs of the page: visible or not, and value
    field,               \* position in fields.items()
    field_sel,           \* position in selectors
    fill_counts,         \* element.fill calls that returned, by field
    fill_actions         \* what the loop added to actions_performed

fvars == << fill_pc, values, inputs, field, field_sel, fill_counts,
            fill_actions >>

Range(s) == { s[i] : i \in 1..Len(s) }

\* the frames of the suspended broadcasts, keyed by coroutine
Put(f, c, v) == [ x \in (DOMAIN f) \cup {c} |-> IF x = c THEN v ELSE f[x] ]
Drop(f, c) == [ x \in (DOMAIN f) \ {c} |-> f[x] ]
NoFrame == [ msg |-> [ type |-> NONE, data |-> [ task |-> NoTask, status |-> NONE, error |-> NONE ] ],
             idx |-> 0, dead |-> << >> ]

----------------------------------------------------------------------------
(* AITask *)

\* func: what the call of task.func did, once the worker has made it
AITask(now) ==
    [ func |-> NotRun, status |-> "queued", created_at |-> now,
      started_at |-> NoTime, finished_at |-> NoTime,
      result |-> NONE, error |-> NONE ]

\* the message broadcast builds from event_type and task.to_dict()
to_dict(t, task) == [ task |-> t, status |-> task.status, error |-> task.error ]

Message(event_type, t, task) ==
    [ type |-> event_type, data |-> to_dict(t, task),
      result |-> IF event_type = "task_finished" /\ task.status = "completed"
                 THEN task.result ELSE NONE ]

----------------------------------------------------------------------------
(* WebSocketManager *)

\* disconnect(websocket): remove it when present
disconnect(conns, o) == SelectSeq(conns, LAMBDA c : c # o)

\* a mutant: only the first dead connection is removed
CleanUpFirstOnly(conns, dead) ==
    IF dead = << >> THEN conns ELSE disconnect(conns, Head(dead))

\* lines 53-54: for dead in dead_connections: self.disconnect(dead)
RECURSIVE CleanUp(_, _)
CleanUp(conns, dead) ==
    IF dead = << >> THEN conns
    ELSE CleanUp(disconnect(conns, Head(dead)), Tail(dead))

\* one iteration of the loop of lines 45-50 over the live list, at list
\* iterator position p.idx: send_json delivers iff the client is open
BroadcastSend(p, conns, lg) ==
    LET o  == conns[p.idx + 1]
        ok == alive[o]
    IN  [ pub |-> [ p EXCEPT !.idx = @ + 1,
                             !.dead = IF ok THEN @ ELSE Append(@, o) ],
          log |-> IF observe
                  THEN [ lg EXCEPT ![o][p.msg.data.task] =
                             Append(@, [ type |-> p.msg.type, ok |-> ok ]) ]
                  ELSE lg ]

\* a mutant: broadcast without the early return of lines 32-33, faulting on
\* an empty list
BroadcastBeginNoGuard(msg, conns, lg) ==
    IF conns = << >>
    THEN [ kind |-> "raised", pub |-> NoFrame, log |-> lg ]
    ELSE LET r == BroadcastSend([ msg |-> msg, idx |-> 0, dead |-> << >> ],
                                conns, lg)
         IN  [ kind |-> "suspended", pub |-> r.pub, log |-> r.log ]

\* broadcast from its call to its first suspension point (lines 32-47)
BroadcastBegin(msg, conns, lg) ==
    IF conns = << >>
    THEN [ kind |-> "returned", pub |-> NoFrame, log |-> lg ]
    ELSE LET r == BroadcastSend([ msg |-> msg, idx |-> 0, dead |-> << >> ],
                                conns, lg)
         IN  [ kind |-> "suspended", pub |-> r.pub, log |-> r.log ]

----------------------------------------------------------------------------
(* SequentialQueueManager *)

\* a mutant: the worker takes the most recently queued task
QueueGetLast(q) == [ task |-> q[Len(q)], rest |-> SubSeq(q, 1, Len(q) - 1) ]

\* asyncio.Queue.get on a non-empty queue
QueueGet(q) == [ task |-> Head(q), rest |-> Tail(q) ]

\* a mutant: the status is not advanced when the function ends
ExecuteKeepStatus(task) ==
    IF task.func.kind = "return"
    THEN [ task EXCEPT !.result = task.func.val ]
    ELSE [ task EXCEPT !.error = task.func.val ]

\* a mutant: a failed task is put back to queued
ExecuteRequeue(task) ==
    IF task.func.kind = "return"
    THEN [ task EXCEPT !.status = "completed", !.result = task.func.val ]
    ELSE [ task EXCEPT !.status = "queued", !.error = task.func.val ]

\* a mutant: the message of the exception is not recorded
ExecuteNoError(task) ==
    IF task.func.kind = "return"
    THEN [ task EXCEPT !.status = "completed", !.result = task.func.val ]
    ELSE [ task EXCEPT !.status = "failed" ]

\* lines 86-99: run task.func, record the outcome on the task
Execute(task) ==
    IF task.func.kind = "return"
    THEN [ task EXCEPT !.status = "completed", !.result = task.func.val ]
    ELSE [ task EXCEPT !.status = "failed", !.error = task.func.val ]

\* a mutant: no handler around the task function, the loop ends when it raises
AfterExecuteNoHandler(task) ==
    IF task.func.kind = "raise" THEN "exited" ELSE "finish"

\* where the loop goes after the inner try/except of lines 86-99
AfterExecute(task) == "finish"

QInit ==
    /\ history = << >>
    /\ queue = << >>
    /\ current_task = NoTask
    /\ worker = "none"
    /\ clock = 0
    /\ add_task_pc = [ t \in TaskIds |-> "none" ]
    /\ active_connections = << >>
    /\ alive = [ o \in Obs |-> TRUE ]
    /\ endpoint = [ o \in Obs |-> "new" ]
    /\ joined = [ o \in Obs |-> NotJoined ]
    /\ pubs = << >>
    /\ log = [ o \in Obs |-> [ t \in TaskIds |-> << >> ] ]
    /\ published = {}
    /\ faults = 0
    /\ start_calls = 0
    /\ worker_loops = 0

\* a mutant: start_worker without the test of line 50
ShouldStartAlways(w) == TRUE

\* line 50: self._worker_task is None or self._worker_task.done()
ShouldStart(w) == w \in {"none", "exited"}

\* start_worker (lines 48-52), called with no live worker loop
StartWorker ==
    /\ ShouldStart(worker)
    /\ worker' = "get"
    /\ start_calls' = start_calls + 1
    /\ worker_loops' = worker_loops + 1
    /\ UNCHANGED << history, queue, current_task, clock, add_task_pc,
                    active_connections, alive, endpoint, joined, pubs, log,
                    published, observe, faults, avars, fvars >>

\* start_worker (lines 48-52), called while the worker loop is live
StartWorkerAgain ==
    /\ ~ShouldStart(worker)
    /\ start_calls < MaxStarts
    /\ start_calls' = start_calls + 1
    /\ UNCHANGED << history, queue, current_task, worker, clock, add_task_pc,
                    active_connections, alive, endpoint, joined, pubs, log,
                    published, observe, faults, worker_loops, avars, fvars >>

\* add_task up to the first suspension point of its broadcast (lines 54-64)
AddTask(bound) ==
    /\ Len(history) < bound
    /\ LET t    == Len(history) + 1
           task == AITask(clock + 1)
           b    == BroadcastBegin(Message("task_queued", t, task),
                                  active_connections, log)
       IN  /\ history' = Append(history, task)
           /\ queue' = Append(queue, t)
           /\ clock' = clock + 1
           /\ published' = published \cup { << "task_queued", t >> }
           /\ pubs' = IF b.kind = "suspended" THEN Put(pubs, t, b.pub) ELSE pubs
           /\ log' = b.log
           /\ add_task_pc' = [ add_task_pc EXCEPT ![t] =
                  CASE b.kind = "returned"  -> "returned"
                    [] b.kind = "suspended" -> "broadcast"
                    [] OTHER                -> "raised" ]
    /\ UNCHANGED << current_task, worker, active_connections, alive,
                    endpoint, joined, faults, observe, avars, fvars, svars >>

\* _worker_loop from queue.get() to the first suspension point after it
\* (lines 74-89)
WorkerGet ==
    /\ worker = "get"
    /\ queue # << >>
    /\ LET g    == QueueGet(queue)
           t    == g.task
           task == [ history[t] EXCEPT !.status = "processing",
                                       !.started_at = clock + 1 ]
           b    == BroadcastBegin(Message("task_started", t, task),
                                  active_connections, log)
       IN  /\ queue' = g.rest
           /\ current_task' = t
           /\ history' = [ history EXCEPT ![t] = task ]
           /\ clock' = clock + 1
           /\ published' = published \cup { << "task_started", t >> }
           /\ pubs' = IF b.kind = "suspended" THEN Put(pubs, WORKER, b.pub) ELSE pubs
           /\ log' = b.log
           /\ worker' = CASE b.kind = "returned"  -> "running"
                          [] b.kind = "suspended" -> "bcast_started"
                          [] OTHER                -> "backoff"
    /\ UNCHANGED << add_task_pc, active_connections, alive, endpoint,
                    joined, faults, observe, avars, fvars, svars >>

\* the task function ends; _worker_loop up to the next suspension point
\* (lines 89-110)
WorkerExecute(outcome) ==
    /\ worker = "running"
    /\ LET t    == current_task
           ran  == [ history[t] EXCEPT !.func = outcome ]
           done == Execute(ran)
           next == AfterExecute(ran)
           task == [ done EXCEPT !.finished_at = clock + 1 ]
           b    == BroadcastBegin(Message("task_finished", t, task),
                                  active_connections, log)
       IN  IF next = "exited"
           THEN /\ worker' = "exited"
                /\ history' = [ history EXCEPT ![t] = ran ]
                /\ UNCHANGED << current_task, clock, published,
                                pubs, log >>
           ELSE /\ history' = [ history EXCEPT ![t] = task ]
                /\ clock' = clock + 1
                /\ published' = published \cup { << "task_finished", t >> }
                /\ pubs' = IF b.kind = "suspended" THEN Put(pubs, WORKER, b.pub) ELSE pubs
                /\ log' = b.log
                /\ worker' = CASE b.kind = "returned"  -> "get"
                               [] b.kind = "suspended" -> "bcast_finished"
                               [] OTHER                -> "backoff"
                /\ current_task' = IF b.kind = "returned" THEN NoTask
                                   ELSE current_task
    /\ UNCHANGED << queue, add_task_pc, active_connections, alive, endpoint,
                    joined, faults, observe, avars, fvars, svars >>

\* a broadcast resumes from send_json and sends to the next connection of
\* the live list (lines 45-50)
BroadcastNext(c) ==
    /\ c \in DOMAIN pubs
    /\ pubs[c].idx < Len(active_connections)
    /\ LET r == BroadcastSend(pubs[c], active_connections, log)
       IN  /\ pubs' = Put(pubs, c, r.pub)
           /\ log' = r.log
    /\ UNCHANGED << history, queue, current_task, worker, clock, add_task_pc,
                    active_connections, alive, endpoint, joined, published,
                    faults, observe, avars, fvars, svars >>

\* a broadcast resumes from send_json, finds the list exhausted, removes the
\* dead connections and returns to its caller (lines 45, 52-54), which runs
\* on to its next suspension point (lines 66-67, or 84-89, or 109-110, 74)
BroadcastEnd(c) ==
    /\ c \in DOMAIN pubs
    /\ pubs[c].idx >= Len(active_connections)
    /\ active_connections' = CleanUp(active_connections, pubs[c].dead)
    /\ pubs' = Drop(pubs, c)
    /\ IF c = WORKER
       THEN /\ worker' = IF worker = "bcast_started" THEN "running" ELSE "get"
            /\ current_task' = IF worker = "bcast_started" THEN current_task
                               ELSE NoTask
            /\ UNCHANGED add_task_pc
       ELSE /\ add_task_pc' = [ add_task_pc EXCEPT ![c] = "returned" ]
            /\ UNCHANGED << worker, current_task >>
    /\ UNCHANGED << history, queue, clock, alive, endpoint, joined, log,
                    published, observe, faults, avars, fvars, svars >>

\* websocket_assistant accepts a connection (assistant.py 29, connect)
Connect(o) ==
    /\ o \in Obs
    /\ endpoint[o] = "new"
    /\ \A q \in Obs : q < o => endpoint[q] # "new"   \* the next unused WebSocket object
    /\ endpoint' = [ endpoint EXCEPT ![o] = "open" ]
    /\ active_connections' = Append(active_connections, o)
    /\ joined' = IF observe THEN [ joined EXCEPT ![o] = Len(history) ] ELSE joined
    /\ UNCHANGED << history, queue, current_task, worker, clock, add_task_pc,
                    alive, pubs, log, published, observe, faults, avars, fvars, svars >>

\* the client of o goes away: every later send_json to o raises
ClientCloses(o) ==
    /\ endpoint[o] = "open"
    /\ alive[o]
    /\ alive' = [ alive EXCEPT ![o] = FALSE ]
    /\ UNCHANGED << history, queue, current_task, worker, clock, add_task_pc,
                    active_connections, endpoint, joined, pubs, log,
                    published, observe, faults, avars, fvars, svars >>

\* receive_text raises in websocket_assistant, which calls disconnect
\* (assistant.py 66-70)
EndpointDisconnect(o) ==
    /\ endpoint[o] = "open"
    /\ ~alive[o]
    /\ endpoint' = [ endpoint EXCEPT ![o] = "closed" ]
    /\ active_connections' = disconnect(active_connections, o)
    /\ UNCHANGED << history, queue, current_task, worker, clock, add_task_pc,
                    alive, joined, pubs, log, published, observe, faults, avars, fvars, svars >>

\* an exception leaves a broadcast of the worker: the handler of lines
\* 112-114 logs it and sleeps
BookkeepingFault ==
    /\ faults < MaxFaults
    /\ worker \in {"bcast_started", "bcast_finished"}
    /\ faults' = faults + 1
    /\ pubs' = Drop(pubs, WORKER)
    /\ worker' = "backoff"
    /\ UNCHANGED << history, queue, current_task, clock, add_task_pc,
                    active_connections, alive, endpoint, joined, log,
                    published, observe, avars, fvars, svars >>

\* asyncio.sleep(1) of line 114 ends, the loop goes back to queue.get()
Backoff ==
    /\ worker = "backoff"
    /\ worker' = "get"
    /\ UNCHANGED << history, queue, current_task, clock, add_task_pc,
                    active_connections, alive, endpoint, joined, pubs, log,
                    published, observe, faults, avars, fvars, svars >>

----------------------------------------------------------------------------
(* GenericAutomator.apply and AutomationManager.run_application *)

MaxSteps == 5            \* range(5)
NApplySelectors == 11    \* len(apply_selectors)
NNextSelectors == 9      \* len(next_selectors)
NFields == 9             \* len(fields)
MaxActions == 3          \* uploads, fills and advance clicks a page takes
MaxApplyClicks == 2      \* clicks on apply controls a page takes

\* the selectors of the barrier checks of lines 46-48 and 115-117
LoadMarkers == { "text=Sign in to apply", "text=Join to apply",
                 ".modal__login-header" }
StepMarkers == { "text=Sign in", "text=Join now", "text=Welcome back" }

\* the addresses a page can have; the last two contain "login" / "signin"
URLs == { "job", "form", "site/login", "site/signin" }

\* line 195: "submit" in sel.lower() or "apply" in sel.lower(), for
\* next_selectors[i]: Submit, Apply and button[type='submit']
SubmitLike(i) == i \in { 5, 6, 7 }

\* a mutant: the barrier check after goto looks for the first marker only
LoginBarrierFirstOnly(markers) == "text=Sign in to apply" \in markers

\* lines 46-48: some marker of the login barrier is in the page
LoginBarrier(markers) == markers # {}

\* a mutant: a login prompt is ignored once something has been done
LoginPromptUnlessProgress(markers, done) == markers # {} /\ done = 0

\* lines 115-117: some login prompt is in the page, whatever was done before
LoginPrompt(markers, done) == markers # {}

\* a mutant: one action is not enough for a potential success
ClassifyNeedsTwo(done) == IF done > 1 THEN "True" ELSE "False"

\* lines 208-213
Classify(done) == IF done > 0 THEN "True" ELSE "False"

AInit ==
    /\ apc = "idle"
    /\ job_status = "new"
    /\ job_resume = FALSE
    /\ profile = "none"
    /\ session = "none"
    /\ context = "none"
    /\ run_result = "none"
    /\ apply_result = "none"
    /\ page_url = "none"
    /\ load_markers = {}
    /\ step_markers = {}
    /\ button_found = FALSE
    /\ actions_performed = 0
    /\ step = 0
    /\ sel = 0
    /\ step_advanced = FALSE
    /\ apply_clicks = 0
    /\ uploads = 0
    /\ fills = 0
    /\ advance_clicks = 0
    /\ launch = "none"
    /\ step_clicks = 0

\* run_application up to the launch of the browser (lines 222-232)
RunApplication(job_found, resume, prof) ==
    /\ apc = "idle"
    /\ job_resume' = (job_found /\ resume)
    /\ profile' = prof
    /\ IF ~job_found
       THEN run_result' = "error: job not found" /\ apc' = "done"
       ELSE IF ~(resume \/ prof = "with resume")
       THEN run_result' = "error: no resume" /\ apc' = "done"
       ELSE run_result' = run_result /\ apc' = "acquire"
    /\ UNCHANGED << job_status, session, context, apply_result, page_url,
                    load_markers, step_markers, button_found,
                    actions_performed, step, sel, step_advanced, apply_clicks,
                    uploads, fills, advance_clicks, launch, step_clicks, qvars, fvars >>

\* a mutant: every exception of the launch is raised again
LaunchErrorAlwaysRaised(outcome) == "raised"

\* lines 265-271: what the handler makes of the exception of a launch; "in
\* use": its message has "profile is in use" or "lock file" in it
LaunchError(outcome) ==
    IF outcome = "in use" THEN "error: profile in use" ELSE "raised"

\* lines 242-271: the browser context is acquired, or the launch raises, or
\* ("import raises") the browser is launched and new_context raises on the
\* storage state of line 259
Acquire(kind, outcome) ==
    /\ apc = "acquire"
    /\ outcome = "in use" => kind = "persistent"
    /\ outcome = "import raises" => kind = "auth state"
    /\ session' = kind
    /\ launch' = outcome
    /\ IF outcome = "ok"
       THEN context' = "open" /\ apc' = "new_page" /\ run_result' = run_result
       ELSE context' = context /\ apc' = "done"
                /\ run_result' = LaunchError(outcome)
    /\ UNCHANGED << job_status, job_resume, profile, apply_result, page_url,
                    load_markers, step_markers, button_found,
                    actions_performed, step, sel, step_advanced, apply_clicks,
                    uploads, fills, advance_clicks, step_clicks, qvars, fvars >>

\* line 273: context.new_page(), outside the try / finally of lines 279-290
NewPage(ok) ==
    /\ apc = "new_page"
    /\ IF ok THEN apc' = "goto" /\ run_result' = run_result
             ELSE apc' = "done" /\ run_result' = "raised"
    /\ UNCHANGED << job_status, job_resume, profile, session, context,
                    apply_result, page_url, load_markers, step_markers,
                    button_found, actions_performed, step, sel, step_advanced,
                    apply_clicks, uploads, fills, advance_clicks, launch, step_clicks, qvars, fvars >>

\* lines 42-43: goto loads the page for job.url, or raises
Navigate(ok, url, markers) ==
    /\ apc = "goto"
    /\ IF ok
       THEN /\ page_url' = url /\ load_markers' = markers
            /\ apc' = "wall" /\ apply_result' = apply_result
       ELSE /\ apply_result' = "raised" /\ apc' = "returned"
            /\ UNCHANGED << page_url, load_markers >>
    /\ UNCHANGED << job_status, job_resume, profile, session, context,
                    run_result, step_markers, button_found, actions_performed,
                    step, sel, step_advanced, apply_clicks, uploads, fills,
                    advance_clicks, launch, step_clicks, qvars, fvars >>

\* lines 45-68: the login barrier check right after the load
WallCheck ==
    /\ apc = "wall"
    /\ IF LoginBarrier(load_markers)
       THEN apply_result' = "False" /\ apc' = "returned" /\ sel' = sel
       ELSE apply_result' = apply_result /\ apc' = "apply_probe" /\ sel' = 1
    /\ button_found' = FALSE
    /\ UNCHANGED << job_status, job_resume, profile, session, context,
                    run_result, page_url, load_markers, step_markers,
                    actions_performed, step, step_advanced, apply_clicks,
                    uploads, fills, advance_clicks, launch, step_clicks, qvars, fvars >>

\* a mutant: without an apply button the run is given up
AfterApplyLoopNeedsButton(found) == IF found THEN "redirect" ELSE "classify"

\* lines 99-102: with or without an apply button apply goes on
AfterApplyLoop(found) == "redirect"

\* one iteration of the loop of lines 70-97 over apply_selectors.
\*   hidden:      is_visible is false, or raises (line 95)
\*   new tab:     the click opens a page, which becomes the working page
\*   load raises: a page opens but wait_for_load_state raises (line 91)
\*   same tab:    no page opens and awaiting new_page_info.value raises
\*                (line 91); the click may have navigated the page
\*   left block:  no page opens and leaving the expect_page block raises
\*                (line 95): the loop goes on to the next selector
\* clicked: page.click did not raise (its exception is swallowed, line 79)
ProbeApply(outcome, clicked, url) ==
    /\ apc = "apply_probe"
    /\ outcome = "hidden" => (~clicked /\ url = page_url)
    /\ outcome = "load raises" => url = page_url
    /\ ~clicked => (outcome \in {"hidden", "same tab", "left block"}
                    /\ url = page_url)
    /\ clicked => apply_clicks < MaxApplyClicks
    /\ apply_clicks' = IF clicked THEN apply_clicks + 1 ELSE apply_clicks
    /\ page_url' = url
    /\ button_found' = (outcome \in {"new tab", "load raises", "same tab"})
    /\ IF outcome \in {"hidden", "left block"} /\ sel < NApplySelectors
       THEN sel' = sel + 1 /\ apc' = apc
       ELSE sel' = sel /\ apc' = AfterApplyLoop(button_found')
    /\ UNCHANGED << job_status, job_resume, profile, session, context,
                    run_result, apply_result, load_markers, step_markers,
                    actions_performed, step, step_advanced, uploads, fills,
                    advance_clicks, launch, step_clicks, qvars, fvars >>

\* a mutant: the clicks on apply controls are counted as actions
ActionsAtStartWithClicks(clicks) == clicks

\* line 110: actions_performed = 0
ActionsAtStart(clicks) == 0

\* a mutant: only "login" is looked for in the address
IsLoginUrlOnly(u) == u = "site/login"

\* line 105: "login" in self.page.url or "signin" in self.page.url
IsLoginUrl(u) == u \in { "site/login", "site/signin" }

\* lines 99-113: the redirect check, then the FormStep loop is entered
RedirectCheck ==
    /\ apc = "redirect"
    /\ IF IsLoginUrl(page_url)
       THEN apply_result' = "False" /\ apc' = "returned"
       ELSE apply_result' = apply_result /\ apc' = "step_wall"
    /\ actions_performed' = ActionsAtStart(apply_clicks)
    /\ step' = 0
    /\ UNCHANGED << job_status, job_resume, profile, session, context,
                    run_result, page_url, load_markers, step_markers,
                    button_found, sel, step_advanced, apply_clicks, uploads,
                    fills, advance_clicks, launch, step_clicks, qvars, fvars >>

\* lines 114-119: the login prompt check at the start of an iteration
StepWall(markers) ==
    /\ apc = "step_wall"
    /\ step_markers' = markers
    /\ IF LoginPrompt(markers, actions_performed)
       THEN apply_result' = "False" /\ apc' = "returned"
       ELSE apply_result' = apply_result /\ apc' = "step_upload"
    /\ UNCHANGED << job_status, job_resume, profile, session, context,
                    run_result, page_url, load_markers, button_found,
                    actions_performed, step, sel, step_advanced, apply_clicks,
                    uploads, fills, advance_clicks, launch, step_clicks, qvars, fvars >>

\* lines 121-133: the resume upload; set_input_files may raise
StepUpload(present, ok, cap) ==
    /\ apc = "step_upload"
    /\ LET upload == present /\ (job_resume \/ profile = "with resume")
       IN  /\ upload => actions_performed < cap
           /\ ~upload => ok
           /\ IF ok
              THEN /\ apc' = "step_fill"
                   /\ apply_result' = apply_result
                   /\ uploads' = IF upload THEN uploads + 1 ELSE uploads
                   /\ actions_performed' = IF upload THEN actions_performed + 1
                                           ELSE actions_performed
              ELSE /\ apc' = "returned"
                   /\ apply_result' = "raised"
                   /\ uploads' = uploads + 1
                   /\ actions_performed' = actions_performed
    /\ UNCHANGED << job_status, job_resume, profile, session, context,
                    run_result, page_url, load_markers, step_markers,
                    button_found, step, sel, step_advanced, apply_clicks,
                    fills, advance_clicks, launch, step_clicks, qvars, fvars >>

\* lines 135-168: n of the profile's fields find a visible, empty input and
\* are filled; nothing is filled without a profile.  cap: the uploads, fills
\* and advance clicks the pages explored take in all
StepFill(n, cap) ==
    /\ apc = "step_fill"
    /\ n <= NFields
    /\ profile = "none" => n = 0
    /\ actions_performed + n <= cap
    /\ fills' = fills + n
    /\ actions_performed' = actions_performed + n
    /\ apc' = "advance_probe"
    /\ sel' = 1
    /\ step_advanced' = FALSE
    /\ step_clicks' = 0
    /\ UNCHANGED << job_status, job_resume, profile, session, context,
                    run_result, apply_result, page_url, load_markers,
                    step_markers, button_found, step, apply_clicks, uploads,
                    advance_clicks, launch, qvars, fvars >>

\* a mutant: without the break of lines 202-204
AfterAdvanceLoopNoBreak(advanced) ==
    IF step + 1 < MaxSteps THEN "step_wall" ELSE "classify"

\* where apply goes when the loop over next_selectors is over (lines 202-204
\* and the for of line 113)
AfterAdvanceLoop(advanced) ==
    IF advanced /\ step + 1 < MaxSteps THEN "step_wall" ELSE "classify"

\* one iteration of the loop of lines 184-200 over next_selectors.
\*   hidden:  is_visible is false or raises, or the click raises (line 199)
\*   clicked: the click is made and counted; the page then has address url;
\*            marker is what the query for a success text gives when the
\*            address did not change ("raises": line 199)
\* After a click that changed the address or showed a success text, a
\* selector with submit or apply in it ends apply with True; for any other
\* selector the test of line 195 reaches self.page.content().lower(), which
\* raises (content() is a coroutine), so line 199 goes on with the next one
ProbeAdvance(outcome, url, marker, cap) ==
    /\ apc = "advance_probe"
    /\ outcome = "hidden" => (url = page_url /\ marker = "absent")
    /\ (outcome = "clicked" /\ url # page_url) => marker = "absent"
    /\ outcome = "clicked" => actions_performed < cap
    /\ LET clicked == outcome = "clicked"
           moved   == clicked /\ (url # page_url \/ marker = "present")
           advanced == step_advanced \/ moved
       IN  /\ page_url' = url
           /\ advance_clicks' = IF clicked THEN advance_clicks + 1
                                ELSE advance_clicks
           /\ step_clicks' = IF clicked THEN step_clicks + 1 ELSE step_clicks
           /\ actions_performed' = IF clicked THEN actions_performed + 1
                                   ELSE actions_performed
           /\ step_advanced' = advanced
           /\ IF moved /\ SubmitLike(sel)
              THEN /\ apply_result' = "True" /\ apc' = "returned"
                   /\ UNCHANGED << sel, step >>
              ELSE IF sel < NNextSelectors
              THEN /\ sel' = sel + 1
                   /\ UNCHANGED << apc, apply_result, step >>
              ELSE /\ apc' = AfterAdvanceLoop(advanced)
                   /\ step' = IF AfterAdvanceLoop(advanced) = "step_wall"
                              THEN step + 1 ELSE step
                   /\ UNCHANGED << sel, apply_result >>
    /\ UNCHANGED << job_status, job_resume, profile, session, context,
                    run_result, load_markers, step_markers, button_found,
                    apply_clicks, uploads, fills, launch, qvars, fvars >>

\* lines 206-213: the terminal classification
ClassifyRun ==
    /\ apc = "classify"
    /\ apply_result' = Classify(actions_performed)
    /\ apc' = "returned"
    /\ UNCHANGED << job_status, job_resume, profile, session, context,
                    run_result, page_url, load_markers, step_markers,
                    button_found, actions_performed, step, sel, step_advanced,
                    apply_clicks, uploads, fills, advance_clicks, launch, step_clicks, qvars, fvars >>

\* a query_selector of lines 46-48, 115-117 or 123 raises (the page or the
\* browser was closed): apply raises
PageFault ==
    /\ apc \in { "wall", "step_wall", "step_upload" }
    /\ apply_result' = "raised"
    /\ apc' = "returned"
    /\ UNCHANGED << job_status, job_resume, profile, session, context,
                    run_result, page_url, load_markers, step_markers,
                    button_found, actions_performed, step, sel, step_advanced,
                    apply_clicks, uploads, fills, advance_clicks, launch, step_clicks, qvars, fvars >>

\* lines 279-288: run_application turns what apply did into its result;
\* stored: db.update_status did not raise
AfterApply(stored) ==
    /\ apc = "returned"
    /\ apply_result # "True" => stored
    /\ job_status' = IF apply_result = "True" /\ stored THEN "applied"
                     ELSE job_status
    /\ run_result' = IF apply_result = "True" /\ stored THEN "success"
                     ELSE "error"
    /\ apc' = "closing"
    /\ UNCHANGED << job_resume, profile, session, context, apply_result,
                    page_url, load_markers, step_markers, button_found,
                    actions_performed, step, sel, step_advanced, apply_clicks,
                    uploads, fills, advance_clicks, launch, step_clicks, qvars, fvars >>

\* lines 289-290: finally context.close(), which may raise
CloseContext(ok) ==
    /\ apc = "closing"
    /\ context' = IF ok THEN "closed" ELSE context
    /\ run_result' = IF ok THEN run_result ELSE "raised"
    /\ apc' = "done"
    /\ UNCHANGED << job_status, job_resume, profile, session, apply_result,
                    page_url, load_markers, step_markers, button_found,
                    actions_performed, step, sel, step_advanced, apply_clicks,
                    uploads, fills, advance_clicks, launch, step_clicks, qvars, fvars >>

----------------------------------------------------------------------------
(* The field-filling loop of one FormStep iteration (lines 136-168) *)

MaxFields == 2           \* entries of fields explored
MaxInputs == 2           \* inputs of the page explored
NFieldSelectors == 3     \* len(selectors), lines 153-157

Fields == 1..MaxFields
Inputs == 1..MaxInputs
NoElement == 0           \* query_selector returned None
ProbeRaised == -1        \* query_selector, is_visible or input_value raised

\* a mutant: the value of the input is not looked at
ShouldFillVisible(element) == element.visible

\* line 162: element.is_visible() and not element.input_value()
ShouldFill(element) == element.visible /\ element.value = ""

\* line 166: break
AfterFill(sel_i) == "field"

\* the loop is not running
FIdle ==
    /\ fill_pc = "idle"
    /\ values = [ f \in Fields |-> "" ]
    /\ inputs = [ e \in Inputs |-> [ visible |-> FALSE, value |-> "" ] ]
    /\ field = 0
    /\ field_sel = 0
    /\ fill_counts = [ f \in Fields |-> 0 ]
    /\ fill_actions = 0

\* line 136 with a profile: any profile values, any page
FInit ==
    /\ fill_pc = "field"
    /\ values \in [ Fields -> { "", "text" } ]
    /\ inputs \in [ Inputs -> [ visible : BOOLEAN, value : { "", "old" } ] ]
    /\ field = 1
    /\ field_sel = 0
    /\ fill_counts = [ f \in Fields |-> 0 ]
    /\ fill_actions = 0

\* lines 149-157: the next entry of fields; an empty value is skipped
FieldBegin ==
    /\ fill_pc = "field"
    /\ IF field > MaxFields
       THEN fill_pc' = "done" /\ UNCHANGED << field, field_sel >>
       ELSE IF values[field] = ""
       THEN fill_pc' = "field" /\ field' = field + 1 /\ UNCHANGED field_sel
       ELSE fill_pc' = "probe" /\ field_sel' = 1 /\ UNCHANGED field
    /\ UNCHANGED << values, inputs, fill_counts, fill_actions, qvars, avars >>

\* lines 159-168: one selector of the current field.  found: what
\* query_selector gave (an input, NoElement, or ProbeRaised when one of the
\* calls of lines 161-162 raised); fill_ok: element.fill did not raise
FillProbe(found, fill_ok) ==
    /\ fill_pc = "probe"
    /\ LET fill == found \in Inputs /\ ShouldFill(inputs[found])
           next == IF fill /\ fill_ok THEN AfterFill(field_sel)
                   ELSE IF field_sel < NFieldSelectors THEN "probe"
                   ELSE "field"
       IN  /\ ~fill => fill_ok
           /\ inputs' = IF fill /\ fill_ok
                         THEN [ inputs EXCEPT ![found].value = values[field] ]
                         ELSE inputs
           /\ fill_counts' = IF fill /\ fill_ok
                              THEN [ fill_counts EXCEPT ![field] = @ + 1 ]
                              ELSE fill_counts
           /\ fill_actions' = IF fill /\ fill_ok THEN fill_actions + 1
                               ELSE fill_actions
           /\ fill_pc' = next
           /\ field' = IF next = "field" THEN field + 1 ELSE field
           /\ field_sel' = IF next = "probe" THEN field_sel + 1 ELSE field_sel
    /\ UNCHANGED << values, qvars, avars >>

FNext ==
    \/ FieldBegin
    \/ \E found \in Inputs \cup { NoElement, ProbeRaised }, fill_ok \in BOOLEAN :
          FillProbe(found, fill_ok)

\* one step of a run on pages that take cap actions in all, have inputs for
\* up to nfields profile fields, and a file input for the resume or not as
\* file_inputs says
ANextOn(cap, nfields, file_inputs) ==
    \/ \E job_found \in BOOLEAN, resume \in BOOLEAN,
          prof \in { "none", "without resume", "with resume" } :
          RunApplication(job_found, resume, prof)
    \/ \E kind \in { "persistent", "auth state", "fresh" },
          outcome \in { "ok", "in use", "raises", "import raises" } :
          Acquire(kind, outcome)
    \/ \E ok \in BOOLEAN : NewPage(ok)
    \/ \E ok \in BOOLEAN, url \in URLs, markers \in SUBSET LoadMarkers :
          Navigate(ok, url, markers)
    \/ WallCheck
    \/ \E outcome \in { "hidden", "new tab", "load raises", "same tab",
                        "left block" },
          clicked \in BOOLEAN, url \in URLs : ProbeApply(outcome, clicked, url)
    \/ RedirectCheck
    \/ \E markers \in SUBSET StepMarkers : StepWall(markers)
    \/ \E present \in file_inputs, ok \in BOOLEAN : StepUpload(present, ok, cap)
    \/ \E n \in 0..nfields : StepFill(n, cap)
    \/ \E outcome \in { "hidden", "clicked" }, url \in URLs,
          marker \in { "absent", "present", "raises" } :
          ProbeAdvance(outcome, url, marker, cap)
    \/ ClassifyRun
    \/ PageFault
    \/ \E stored \in BOOLEAN : AfterApply(stored)
    \/ \E ok \in BOOLEAN : CloseContext(ok)

ANext == ANextOn(MaxActions, NFields, BOOLEAN)

\* a run on pages with nothing to upload or fill, which take an advance
\* click in each of the MaxSteps iterations
StepsNext == ANextOn(MaxSteps, 0, {FALSE})

QNext(tasks, observers) ==
    \/ StartWorker
    \/ AddTask(tasks)
    \/ WorkerGet
    \/ \E outcome \in Outcomes : WorkerExecute(outcome)
    \/ \E c \in Coros : BroadcastNext(c)
    \/ \E c \in Coros : BroadcastEnd(c)
    \/ \E o \in 1..observers : Connect(o)
    \/ \E o \in Obs : ClientCloses(o)
    \/ \E o \in Obs : EndpointDisconnect(o)

\* the steps the event loop runs whenever they are ready: the worker, the
\* broadcasts (every send_json ends) and the task function (assumed to end)
Progress ==
    \/ StartWorker
    \/ WorkerGet
    \/ \E outcome \in Outcomes : WorkerExecute(outcome)
    \/ \E c \in Coros : BroadcastNext(c)
    \/ \E c \in Coros : BroadcastEnd(c)
    \/ Backoff

vars == << qvars, avars, fvars >>

\* the coordinator and the broadcaster
Init == QInit /\ observe = FALSE /\ AInit /\ FIdle
Next == QNext(MaxTasks, MaxObs)
Spec == Init /\ [][Next]_vars

\* the same, with the clients recording what they are sent
InitObserved == QInit /\ observe = TRUE /\ AInit /\ FIdle
NextObserved == QNext(BcastTasks, BcastObs)
SpecObserved == InitObserved /\ [][NextObserved]_vars

\* the coordinator under the event loop's fair scheduling
FairSpec == Init /\ [][Next]_vars /\ WF_vars(Progress)

\* the same, with faults injected into the worker's bookkeeping
NextFault == Next \/ BookkeepingFault \/ Backoff
FairSpecFault == Init /\ [][NextFault]_vars /\ WF_vars(Progress)

\* a mutant: an error result of the run is raised as an exception
process_job_application_raising(res) ==
    IF res = "success" THEN [ kind |-> "return", val |-> res ]
    ELSE [ kind |-> "raise", val |-> res ]

\* tasks.py 274-310: the result of run_application is returned as it is, an
\* exception of run_application is raised again
process_job_application(res) ==
    IF res = "raised" THEN [ kind |-> "raise", val |-> "boom" ]
    ELSE [ kind |-> "return", val |-> res ]

\* the worker has taken up a process_job_application task, submitted and
\* started while one observer was connected, and awaits its function
JobInit ==
    /\ history = << [ AITask(1) EXCEPT !.status = "processing",
                                       !.started_at = 2 ] >>
    /\ queue = << >>
    /\ current_task = 1
    /\ worker = "running"
    /\ clock = 2
    /\ add_task_pc = [ t \in TaskIds |-> IF t = 1 THEN "returned" ELSE "none" ]
    /\ active_connections = << 1 >>
    /\ alive = [ o \in Obs |-> TRUE ]
    /\ endpoint = [ o \in Obs |-> IF o = 1 THEN "open" ELSE "new" ]
    /\ joined = [ o \in Obs |-> NotJoined ]
    /\ pubs = << >>
    /\ log = [ o \in Obs |-> [ t \in TaskIds |-> << >> ] ]
    /\ published = { << "task_queued", 1 >>, << "task_started", 1 >> }
    /\ faults = 0
    /\ start_calls = 1
    /\ worker_loops = 1
    /\ observe = FALSE
    /\ AInit
    /\ FIdle

\* the automation run of the task, then the worker's handling of what
\* process_job_application gave, up to the end of the task_finished
\* broadcast
JobNext ==
    \/ ANext
    \/ apc = "done" /\ WorkerExecute(process_job_application(run_result))
    \/ BroadcastEnd(WORKER)

SpecJob == JobInit /\ [][JobNext]_vars

\* the coordinator with start_worker called again and again
NextStart == Next \/ StartWorkerAgain
SpecStart == Init /\ [][NextStart]_vars

\* one automation run, from run_application's call to its end
SpecApply == Init /\ [][ANext]_vars

\* the field-filling loop on any page, for any profile
InitFill == QInit /\ observe = FALSE /\ AInit /\ FInit
SpecFill == InitFill /\ [][FNext]_vars

\* a run through the FormStep iterations, with every wait of the run ending
\* (each one has a timeout)
FairSpecSteps == Init /\ [][StepsNext]_vars /\ WF_vars(StepsNext)

----------------------------------------------------------------------------
(* Claims *)

Status(t) == history[t].status
Submitted == 1..Len(history)
Processing == { t \in Submitted : Status(t) = "processing" }

\* C1: at every instant at most one Task has status processing, whatever
\* the interleaving of add_task calls with the steps of the worker loop
C1_SingleFlight == Cardinality(Processing) <= 1

\* one task is processing, with the worker suspended in a broadcast, while
\* another submitted task waits in the queue
C1_Witness ==
    \E t \in Submitted, u \in Submitted :
        /\ Status(t) = "processing" /\ Status(u) = "queued"
        /\ worker = "bcast_started" /\ queue = << u >>

\* C2: tasks start and end in submission order; a later-submitted task is
\* not started before every earlier-submitted one is completed or failed
C2_StrictFIFO ==
    \A t \in Submitted, u \in Submitted :
        (t < u /\ Status(u) # "queued") =>
            /\ Status(t) \in Terminal
            /\ history[t].finished_at < history[u].started_at
            /\ history[t].started_at < history[u].started_at
            /\ (Status(u) \in Terminal =>
                    history[t].finished_at < history[u].finished_at)

\* two tasks submitted back to back before the first one started; the first
\* has ended and the second is processing
C2_Witness ==
    /\ Len(history) >= 2
    /\ history[2].created_at < history[1].started_at
    /\ Status(1) \in Terminal /\ Status(2) = "processing"

\* C3: the only status transitions of a task are queued -> processing,
\* processing -> completed and processing -> failed; a task is created
\* queued and completed / failed are never left
C3_StatusTransitions ==
    [][ \A t \in 1..Len(history') :
          IF t \in Submitted
          THEN \/ history'[t].status = Status(t)
               \/ << Status(t), history'[t].status >> \in
                      { << "queued", "processing" >>,
                        << "processing", "completed" >>,
                        << "processing", "failed" >> }
          ELSE history'[t].status = "queued" ]_vars

\* one task went all the way to completed and another to failed
C3_Witness ==
    \E t \in Submitted, u \in Submitted :
        Status(t) = "completed" /\ Status(u) = "failed"

\* C4: the worker loop never ends because of a failure: a task whose
\* function raises becomes failed with the message in error, a fault in the
\* loop's own bookkeeping sends it to the backoff and back to the queue,
\* and every queued task is still taken up, every running task still ended
C4_WorkerSurvives ==
    /\ [](worker # "exited")
    /\ [](\A t \in Submitted :
            (Status(t) \in Terminal /\ history[t].func.kind = "raise") =>
                (Status(t) = "failed" /\ history[t].error = history[t].func.val))
    /\ [](worker = "backoff" => <>(worker = "get"))
    /\ \A t \in TaskIds :
          (t \in Submitted /\ Status(t) = "queued" /\ worker # "none")
              ~> (t \in Submitted /\ Status(t) # "queued")
    /\ \A t \in TaskIds :
          (worker = "running" /\ current_task = t)
              ~> (t \in Submitted /\ Status(t) \in Terminal)

\* a task failed, a bookkeeping fault was handled, and a task submitted
\* after the failed one was still processed to its end
C4_Witness ==
    /\ faults > 0
    /\ \E t \in Submitted, u \in Submitted :
          t < u /\ Status(t) = "failed" /\ Status(u) \in Terminal

\* C5: with the worker started, every submitted task eventually is
\* completed or failed, with finished_at recorded and task_finished
\* published
C5_EveryTaskFinishes ==
    \A t \in TaskIds :
        (t \in Submitted) ~>
            /\ t \in Submitted
            /\ Status(t) \in Terminal
            /\ history[t].finished_at # NoTime
            /\ << "task_finished", t >> \in published

\* every task that can be submitted has been, and has ended with its
\* task_finished broadcast over
C5_Witness ==
    /\ Len(history) = MaxTasks
    /\ \A t \in Submitted :
          Status(t) \in Terminal /\ << "task_finished", t >> \in published
    /\ worker = "get" /\ active_connections # << >>

\* what o was successfully sent about task t, in order
Received(o, t) ==
    LET ok == SelectSeq(log[o][t], LAMBDA e : e.ok)
    IN  [ i \in 1..Len(ok) |-> ok[i].type ]

IsPrefix(s, full) == Len(s) <= Len(full) /\ s = SubSeq(full, 1, Len(s))

Lifecycle == << "task_queued", "task_started", "task_finished" >>

\* o was accepted before t was submitted and has been live, with every
\* delivery succeeding, ever since
StaysConnected(o, t) ==
    /\ joined[o] # NotJoined /\ joined[o] < t
    /\ alive[o]
    /\ o \in Range(active_connections)

\* every broadcast about t has been made and has returned
TaskEnded(t) ==
    /\ Status(t) \in Terminal
    /\ << "task_finished", t >> \in published
    /\ \A c \in DOMAIN pubs : pubs[c].msg.data.task # t

\* C6: an observer that stays connected from before the submit until the
\* task ends receives task_queued, then task_started, then task_finished
\* for it, once each and in that order
C6_LifecycleInOrder ==
    \A o \in Obs, t \in Submitted :
        StaysConnected(o, t) =>
            /\ IsPrefix(Received(o, t), Lifecycle)
            /\ (TaskEnded(t) => Received(o, t) = Lifecycle)

\* C7: when a delivery raises during a publish, every other live observer
\* still receives that message, the failing observer is out of the live set
\* when the publish returns, and nothing is sent to it afterwards
C7_FailureIsolated ==
    [][ /\ \A c \in DOMAIN pubs :
              (c \notin DOMAIN pubs' /\ pubs[c].dead # << >>) =>
                  /\ \A d \in Range(pubs[c].dead) :
                         d \notin Range(active_connections')
                  /\ \A o \in Range(active_connections') :
                         StaysConnected(o, pubs[c].msg.data.task) =>
                             \E i \in 1..Len(log'[o][pubs[c].msg.data.task]) :
                                 log'[o][pubs[c].msg.data.task][i] =
                                     [ type |-> pubs[c].msg.type, ok |-> TRUE ]
        /\ \A o \in Obs :
              (endpoint[o] # "new" /\ o \notin Range(active_connections)) =>
                  log'[o] = log[o] ]_vars

\* C8: a publish with an empty live set returns to its caller without
\* raising, sends nothing and leaves the live set empty
C8_EmptyPublishIsNoOp ==
    [][ (published' # published /\ active_connections = << >>) =>
            /\ active_connections' = << >>
            /\ pubs' = pubs
            /\ log' = log
            /\ worker' \in {worker, "running", "get"}
            /\ \A t \in 1..Len(history') :
                   t \notin Submitted => add_task_pc'[t] = "returned" ]_vars

\* all three events of a task were published while nobody had ever connected
C8_Witness ==
    /\ \A o \in Obs : endpoint[o] = "new"
    /\ \E t \in Submitted :
          /\ \A e \in Range(Lifecycle) : << e, t >> \in published
          /\ add_task_pc[t] = "returned"
          /\ Status(t) \in Terminal
    /\ worker = "get"

ApplyEnded == apc \in { "returned", "closing", "done" }

\* C9: with a login-wall marker in the page right after the load, apply
\* goes no further than the barrier check: nothing is clicked, uploaded or
\* filled, actions_performed is 0 and the run ends in failure
C9_LoginWallAtLoad ==
    load_markers # {} =>
        /\ apc \in { "wall", "returned", "closing", "done" }
        /\ apply_clicks = 0 /\ uploads = 0 /\ fills = 0 /\ advance_clicks = 0
        /\ actions_performed = 0
        /\ apply_result \in { "none", "False", "raised" }
        /\ (apply_result = "raised" \/ (ApplyEnded => apply_result = "False"))
        /\ job_status # "applied"
        /\ (apc = "done" => run_result \in { "error", "raised" })

\* a run that met the login wall at the load and ended with an error result
C9_Witness ==
    /\ load_markers # {}
    /\ apc = "done" /\ apply_result = "False" /\ run_result = "error"
    /\ context = "closed"

\* C10: with a login marker in the page at the start of a FormStep
\* iteration, apply returns False whatever earlier iterations did, and the
\* job's status is not set to applied
C10_LoginWallInStep ==
    step_markers # {} =>
        /\ ApplyEnded
        /\ apply_result = "False"
        /\ job_status # "applied"
        /\ (apc = "done" => run_result \in { "error", "raised" })

\* a run that performed actions in an earlier iteration, met a login prompt
\* at the start of a later one and ended with an error result
C10_Witness ==
    /\ step_markers # {}
    /\ step > 0 /\ actions_performed > 0
    /\ apc = "done" /\ run_result = "error" /\ job_status = "new"

\* what the run did to the page: uploads, field fills and advance clicks
ActionsDone == uploads + fills + advance_clicks

\* C11: when the FormStep loop ends without an explicit success, apply
\* returns True iff at least one upload, field fill or advance click was
\* made during the run and False iff none was; a run that clicked nothing,
\* uploaded nothing and filled nothing ends in failure
C11_TerminalClassification ==
    /\ [][ apc = "classify" =>
              /\ apc' = "returned"
              /\ apply_result' = IF ActionsDone > 0 THEN "True" ELSE "False"
         ]_vars
    /\ []( (ApplyEnded /\ apply_result \notin { "none", "raised" }
              /\ apply_clicks = 0 /\ ActionsDone = 0) =>
                apply_result = "False" )

\* a run that went through the whole list of advance controls in a second
\* iteration without an explicit success, was classified a potential
\* success and ended with the job applied
C11_Witness ==
    /\ apc = "done" /\ sel = NNextSelectors /\ step > 0
    /\ ActionsDone > 0 /\ apply_result = "True"
    /\ run_result = "success" /\ job_status = "applied"

\* C12: run_application never raises: whatever fails while the session is
\* acquired, the page created, the page driven or the session released,
\* its caller gets a result
C12_NoRawException == apc = "done" => run_result # "raised"

\* the context was acquired and the finally of lines 289-290 was entered, but
\* context.close() itself raised
CloseRaised == run_result = "raised" /\ apply_result # "none"

C15_StatusIffSuccess ==
    /\ job_status \in { "new", "applied" }
    /\ (job_status = "applied" => run_result \in { "success", "raised" })
    /\ (apc = "done" => (job_status = "applied" <=> run_result = "success"))

\* C16: once the click of an advance control has changed the address or
\* shown a success marker, apply has returned True: no further control is
\* probed and no further iteration runs
C16_AdvanceIsTerminal ==
    step_advanced => (ApplyEnded /\ apply_result = "True")

\* C17: a run for a job with a resume on disk makes at most one upload,
\* however many FormStep iterations it goes through
C17_SingleUpload ==
    job_resume => uploads <= 1

\* C20: at most one apply control is clicked in a run, and once one has been
\* clicked no later candidate is probed
C20_FirstMatchWins ==
    /\ apply_clicks <= 1
    /\ (apply_clicks = 1 => apc # "apply_probe")

\* the publishes that return in this step
Returning == { c \in DOMAIN pubs : c \notin DOMAIN pubs' }

\* C18: a publish attempts delivery to every observer that is in the live
\* set from its beginning to its end, whatever subscribe, unsubscribe or
\* other publish runs at its suspension points
C18_NoObserverSkipped ==
    [][ \A c \in Returning :
          LET t == pubs[c].msg.data.task
          IN  \A o \in Range(active_connections) :
                  (joined[o] # NotJoined /\ joined[o] < t) =>
                      \E i \in 1..Len(log[o][t]) :
                          log[o][t][i].type = pubs[c].msg.type ]_vars

C21_OneAdvanceClick ==
    /\ [](step_clicks <= 1)
    /\ [][ advance_clicks' # advance_clicks =>
              /\ advance_clicks' = advance_clicks + 1
              /\ actions_performed' = actions_performed + 1 ]_vars

\* C22: apply always ends with an outcome; the FormStep loop runs at most
\* MaxSteps iterations and goes on to another iteration only after one in
\* which an advance control was clicked
C22_ApplyTerminates ==
    /\ [](step < MaxSteps)
    /\ [][ (apc = "advance_probe" /\ apc' = "step_wall") =>
              (step_clicks' >= 1 /\ step' = step + 1) ]_vars
    /\ (apc = "goto") ~> (ApplyEnded /\ apply_result # "none")

\* apply went through all MaxSteps iterations, advancing in each, and ended
C22_Witness ==
    /\ ApplyEnded /\ apply_result = "True"
    /\ step = MaxSteps - 1 /\ step_advanced /\ sel = NNextSelectors

C24_ImportFailureContinues ==
    launch = "import raises" =>
        /\ context # "none"
        /\ ~(apc = "done" /\ apply_result = "none")

\* no apply control was clicked or found
NoApplyButton == apply_clicks = 0 /\ ~button_found

C29_ApplyClickNotCounted ==
    /\ (apc \in { "step_wall", "step_upload" } /\ step = 0) =>
           actions_performed = 0
    /\ (ApplyEnded /\ apply_clicks > 0 /\ ActionsDone = 0
           /\ apply_result \notin { "none", "raised" }) =>
              /\ apply_result = "False"
              /\ job_status = "new"
              /\ (apc = "done" => run_result \in { "error", "raised" })

\* a run that clicked an apply control, went through a FormStep iteration
\* with nothing to do and ended with an error result
C29_Witness ==
    /\ apc = "done" /\ apply_clicks = 1 /\ button_found /\ ActionsDone = 0
    /\ sel = NNextSelectors /\ step_markers = {} /\ ~IsLoginUrl(page_url)
    /\ apply_result = "False" /\ run_result = "error" /\ job_status = "new"

\* C30: with login or signin in the address of the working page after the
\* apply phase, apply returns False before the first FormStep iteration,
\* nothing uploaded, filled or clicked
C30_LoginRedirect ==
    /\ [](apc = "redirect" => ActionsDone = 0)
    /\ [][ (apc = "redirect" /\ page_url \in { "site/login", "site/signin" }) =>
              /\ apc' = "returned" /\ apply_result' = "False"
              /\ ActionsDone' = 0 ]_vars

\* a run whose click on the apply control led to a sign-in address
C30_Witness ==
    /\ apc = "done" /\ apply_clicks = 1 /\ page_url = "site/signin"
    /\ load_markers = {} /\ ActionsDone = 0
    /\ apply_result = "False" /\ run_result = "error"

\* C27: whenever another coroutine can run, the fields of every task agree
\* with its status
C27_FieldsAgreeWithStatus ==
    \A t \in Submitted :
        LET task == history[t]
        IN  /\ task.status \in { "queued", "processing", "completed", "failed" }
            /\ task.status = "queued" =>
                   /\ task.started_at = NoTime /\ task.finished_at = NoTime
                   /\ task.result = NONE /\ task.error = NONE
            /\ task.status = "processing" =>
                   /\ task.started_at # NoTime /\ task.finished_at = NoTime
                   /\ task.result = NONE /\ task.error = NONE
            /\ task.status = "completed" =>
                   /\ task.started_at # NoTime /\ task.finished_at # NoTime
                   /\ task.error = NONE
            /\ task.status = "failed" =>
                   /\ task.started_at # NoTime /\ task.finished_at # NoTime
                   /\ task.error # NONE /\ task.result = NONE

\* a failed task, seen while the broadcast of its end is suspended and the
\* next task waits in the queue
C27_Witness ==
    /\ worker = "bcast_finished"
    /\ \E t \in Submitted, u \in Submitted :
          /\ current_task = t /\ Status(t) = "failed"
          /\ Status(u) = "queued"

\* C28: however often start_worker is called, a worker loop is created only
\* when none exists or the last one has finished, so at most one is live;
\* tasks submitted before the first call stay queued until then
C28_OneWorkerLoop ==
    /\ [](worker_loops <= 1)
    /\ [][ worker_loops' # worker_loops =>
              /\ worker \in { "none", "exited" }
              /\ worker_loops' = worker_loops + 1 ]_vars
    /\ [](worker = "none" =>
            /\ worker_loops = 0
            /\ \A t \in Submitted : Status(t) = "queued" /\ t \in Range(queue))

\* tasks were submitted before the first call of start_worker, which was
\* then called several times; one loop runs and has processed them all
C28_Witness ==
    /\ start_calls = MaxStarts /\ worker_loops = 1
    /\ Len(history) = MaxTasks
    /\ \A t \in Submitted :
          history[t].created_at < history[1].started_at
              /\ Status(t) \in Terminal

\* the results with which run_application reports a failure
FailureResults ==
    { "error", "error: profile in use", "error: job not found",
      "error: no resume" }

\* C26: a task ends failed iff its function raised; a run that ends with a
\* failure result returns it, so its task ends completed with no error and
\* the failure is only in the result sent with task_finished
C26_FailureResultCompletes ==
    /\ \A t \in Submitted : Status(t) \in Terminal =>
          /\ Status(t) = "failed" <=> run_result = "raised"
          /\ run_result \in FailureResults =>
                 /\ Status(t) = "completed"
                 /\ history[t].error = NONE
                 /\ history[t].result = run_result
    /\ \A c \in DOMAIN pubs :
          (pubs[c].msg.type = "task_finished"
              /\ run_result \in FailureResults) =>
                 /\ pubs[c].msg.data.status = "completed"
                 /\ pubs[c].msg.data.error = NONE
                 /\ pubs[c].msg.result = run_result

\* a run that met the login wall: its task is completed and the error
\* result is on its way to an observer with task_finished
C26_Witness ==
    /\ load_markers # {} /\ run_result = "error"
    /\ worker = "bcast_finished"
    /\ \E t \in Submitted :
          /\ Status(t) = "completed" /\ history[t].result = "error"
          /\ WORKER \in DOMAIN pubs
          /\ pubs[WORKER].msg.result = "error"

====
